---- MODULE Spec2Model ----
(***************************************************************************)
(* Authentication resolution and account linking of the knowledge-graph    *)
(* client: the Google-login reconciliation of AuthModal                    *)
(* (handleGoogleLogin.onSuccess), the persisted auth store (useAuthStore), *)
(* the generated registration credential, and the Classroom access-token   *)
(* resolver (useClassroomAccessToken).                                     *)
(*                                                                         *)
(* Text is modelled as a sequence of chunks whose concatenation is the     *)
(* string; the chunking of every message is chosen so that each needle the *)
(* code searches for ('404', 'Not Found', 'Failed to fetch') is a whole     *)
(* chunk wherever it                                                       *)
(* occurs, which makes the chunk-level search below agree with             *)
(* String.prototype.includes on the messages of this model.                *)
(***************************************************************************)
EXTENDS Naturals, Sequences, FiniteSets, TLC

VARIABLES
    \* Backend Profile Service: the profile stored under each email.
    profiles,
    \* useAuthStore state, what persist keeps under 'nexus-auth', and the
    \* store operation applied last.
    user, isAuthenticated, authError, isAuthLoading, persisted, lastOp,
    \* AuthModal component state.
    isGoogleLoading, error, mode, email, password, displayName, isLoading,
    \* One record of locals per onSuccess invocation.
    pc, userInfo, existingProfile, shouldRegister,
    \* What each invocation did: the calls it issued, in order, and how
    \* its awaits settled (writeError: what its update or register call
    \* rejected with).
    registerCalls, updateCalls, loginCalls, shown,
    lookupOutcome, updateOutcome, registerOutcome, writeError, result, sessionBefore,
    lastWriter,
    \* The requests that were in flight when logout was last called and
    \* have not been issued anew since.
    pendingAtLogout,
    \* handleSubmit: its position, the form values it was called with, the
    \* backend calls it issued and how it ended.
    submitPc, submitted, authCalls, submitShown, submitResult,
    submitSessionBefore, loadingRaised,
    \* Credential generation (Array(16).fill(0).map(...).join('') + 'Aa1').
    drawsDone, randomPassword, passwordPc,
    \* useClassroomAccessToken: localStorage, hook state, next-auth session.
    localStorageToken, storedToken, refreshKey, sessionToken, sessionProvider,
    \* useHasClassroomAccess in the same component: its useState.
    hasStoredToken,
    mounted, lastEvent,
    \* AuthCallbackPage in its popup: the page's position, whether
    \* window.opener is set, the messages posted to the opener, whether the
    \* window has closed itself, and window.location.href.
    cbPc, cbOpener, cbPosted, cbClosed, cbHref,
    \* A Classroom query hook (useQuery state, as the hook drives it).
    qKey, qStatus, qFailureCount, qFetches, qLastError,
    \* SectionMaterialModal: whether it is shown, its two useState values,
    \* the loadingItemId of the render on screen (what the handlers and the
    \* items' props were made with), and the onItemSelect calls since the
    \* last reset.
    mOpen, activeTab, loadingItemId, renderedLoadingItemId, itemSelectCalls

backendVars == <<profiles>>
storeVars == <<user, isAuthenticated, authError, isAuthLoading, persisted, lastOp>>
formVars == <<mode, email, password, displayName>>
modalVars == <<isGoogleLoading, error, formVars, isLoading>>
localVars == <<pc, userInfo, existingProfile, shouldRegister>>
callHistoryVars == <<registerCalls, updateCalls, loginCalls, shown,
                     lookupOutcome, updateOutcome, registerOutcome, writeError,
                     result, sessionBefore, lastWriter>>
historyVars == <<callHistoryVars, pendingAtLogout>>
reconcileVars == <<backendVars, storeVars, modalVars, localVars, historyVars>>
passwordVars == <<drawsDone, randomPassword, passwordPc>>
tokenVars == <<localStorageToken, storedToken, refreshKey, hasStoredToken, sessionToken,
               sessionProvider, mounted, lastEvent>>
submitVars == <<submitPc, submitted, authCalls, submitShown, submitResult,
                submitSessionBefore, loadingRaised>>
\* The OAuth callback popup page.
callbackVars == <<cbPc, cbOpener, cbPosted, cbClosed, cbHref>>
\* One Classroom query hook in a mounted component: the key of its current
\* query, the query's status and failure count, the fetch calls issued for
\* it and the error of the latest failed one.
queryVars == <<qKey, qStatus, qFailureCount, qFetches, qLastError>>
\* SectionMaterialModal.
materialVars == <<mOpen, activeTab, loadingItemId, renderedLoadingItemId,
                  itemSelectCalls>>
pageVars == <<callbackVars, queryVars, materialVars>>
vars == <<reconcileVars, passwordVars, tokenVars, submitVars, pageVars>>

(***************************************************************************)
(* Values.                                                                 *)
(***************************************************************************)
\* null / undefined of a Profile-typed value.
NoProfile == [none |-> TRUE]
\* null / undefined of a string-typed value.
NoStr == "<absent>"
\* null of the error message state; also "nothing thrown".
NoMsg == << >>
NoError == [isError |-> FALSE, message |-> NoMsg]

AllInvocations == {1, 2}
\* The onSuccess invocations that run under Spec.
Invocations == {1}

Emails == {"a@x.com", "b@x.com"}
Pictures == {"http://img", "http://img2"}

\* The userinfo documents Google may answer with.
UserInfos ==
    [email : Emails, name : {"Ann"}, picture : Pictures \cup {NoStr}]

NoUserInfo == [email |-> NoStr, name |-> NoStr, picture |-> NoStr]

\* The id the backend assigns to the profile created for an email.
NewId(addr) == <<"id", addr>>
NoId == <<"id", NoStr>>

Truthy(s) == s # NoStr

\* String.prototype.includes, on chunked text.
Includes(msg, needle) ==
    \E k \in 1..Len(msg) :
        /\ k + Len(needle) - 1 <= Len(msg)
        /\ SubSeq(msg, k, k + Len(needle) - 1) = needle

Err(msg) == [isError |-> TRUE, message |-> msg]
\* A thrown value that is not an Error instance (its String() text).
Thrown(msg) == [isError |-> FALSE, message |-> msg]

(***************************************************************************)
(* Messages the handler itself raises.                                     *)
(***************************************************************************)
MsgUserInfoFailed == <<"Failed to fetch", " user info from Google">>
MsgCouldNotVerify == <<"Could not verify account status. Please try again.">>
MsgGoogleFallback == <<"Failed to login with Google">>

(***************************************************************************)
(* Failures of the collaborators.                                          *)
(***************************************************************************)
MsgFailedToFetch == <<"Failed to fetch">>
MsgNotJson == <<"Unexpected token '<', \"<!DOCTYPE \"... is not valid JSON">>
MsgServerError == <<"API Error: ", "500", " Internal Server Error">>
MsgConflict == <<"API Error: ", "409", " Conflict">>

\* How lookup-by-email can fail: kind is what actually happened, err is
\* the value the call rejects with.  A not-found is surfaced as an
\* HTTP-404-equivalent outcome; a body that is not JSON makes the JSON
\* parser raise a SyntaxError which quotes the start of the body.
LookupFailures ==
    { [kind |-> "NotFound",
       err |-> Err(<<"API Error: ", "404", " ", "Not Found">>)],
      [kind |-> "NotFound", err |-> Err(<<"HTTP error! status: ", "404">>)],
      [kind |-> "Server", err |-> Err(MsgServerError)],
      [kind |-> "Network", err |-> Err(MsgFailedToFetch)],
      [kind |-> "Malformed", err |-> Err(MsgNotJson)],
      [kind |-> "Malformed",
       err |-> Err(<<"Unexpected token 'N', \"", "Not Found",
                     "\" is not valid JSON">>)],
      [kind |-> "Server", err |-> Thrown(<<"[object Object]">>)] }

\* How api.profiles.update and api.auth.register can fail.
WriteFailures ==
    { Err(MsgServerError), Err(MsgFailedToFetch), Thrown(<<"[object Object]">>),
      Err(<<"API Error: ", "404", " ", "Not Found">>) }

(***************************************************************************)
(* Backend Profile Service, as the reconciliation consumes it.             *)
(***************************************************************************)
\* getByEmail(email, true): a profile when one is stored, a not-found
\* otherwise; at any time a failure of another kind, or an empty body.
LookupResponses(addr) ==
    (IF profiles[addr] # NoProfile
        THEN { [kind |-> "Found", profile |-> profiles[addr], err |-> NoError] }
        ELSE { [kind |-> f.kind, profile |-> NoProfile, err |-> f.err] :
                   f \in { g \in LookupFailures : g.kind = "NotFound" } })
    \cup { [kind |-> f.kind, profile |-> NoProfile, err |-> f.err] :
               f \in { g \in LookupFailures : g.kind # "NotFound" } }
    \cup { [kind |-> "Empty", profile |-> NoProfile, err |-> NoError] }

\* update(id, fields): the stored profile is replaced by the fields sent.
UpdateResponses(call) ==
    { [ok |-> TRUE, profile |-> call.fields, err |-> NoError] }
    \cup { [ok |-> FALSE, profile |-> NoProfile, err |-> e] : e \in WriteFailures }

\* register(fields): a new profile under a fresh id; email is a unique key.
CreatedProfile(call) ==
    [id |-> NewId(call.email), email |-> call.email,
     displayName |-> call.displayName, avatarUrl |-> call.avatarUrl,
     provider |-> "local"]

RegisterResponses_NoUniqueness(call) ==
    { [ok |-> TRUE, profile |-> CreatedProfile(call), err |-> NoError] }
    \cup { [ok |-> FALSE, profile |-> NoProfile, err |-> e] : e \in WriteFailures }

RegisterResponses(call) ==
    (IF profiles[call.email] = NoProfile
        THEN { [ok |-> TRUE, profile |-> CreatedProfile(call), err |-> NoError] }
        ELSE { [ok |-> FALSE, profile |-> NoProfile, err |-> Err(MsgConflict)] })
    \cup { [ok |-> FALSE, profile |-> NoProfile, err |-> e] : e \in WriteFailures }

\* How api.auth.login can fail: as a lookup can, or on a wrong password.
LoginFailures ==
    LookupFailures
    \cup { [kind |-> "Unauthorized",
           err |-> Err(<<"API Error: ", "401", " Unauthorized">>)] }

\* login({email, password}): the stored profile, a not-found when there is
\* none, at any time a failure of another kind, or an empty body.
LoginResponses(call) ==
    (IF call.email \in Emails /\ profiles[call.email] # NoProfile
        THEN { [ok |-> TRUE, kind |-> "Found", profile |-> profiles[call.email],
                err |-> NoError] }
             \cup { [ok |-> FALSE, kind |-> f.kind, profile |-> NoProfile,
                     err |-> f.err] :
                        f \in { g \in LoginFailures : g.kind = "Unauthorized" } }
        ELSE { [ok |-> FALSE, kind |-> f.kind, profile |-> NoProfile, err |-> f.err] :
                   f \in { g \in LoginFailures : g.kind = "NotFound" } })
    \cup { [ok |-> FALSE, kind |-> f.kind, profile |-> NoProfile, err |-> f.err] :
               f \in { g \in LoginFailures :
                           g.kind \notin {"NotFound", "Unauthorized"} } }
    \cup { [ok |-> TRUE, kind |-> "Empty", profile |-> NoProfile, err |-> NoError] }

(***************************************************************************)
(* handleGoogleLogin.onSuccess: the decisions of the handler.              *)
(***************************************************************************)
\* err instanceof Error ? err.message : String(err)
ErrorMsgOf(err) == err.message

IsNotFoundMessage_OnlyStatusText(errorMsg) ==
    Includes(errorMsg, <<"Not Found">>)

\* errorMsg.includes('404') || errorMsg.includes('Not Found')
IsNotFoundMessage(errorMsg) ==
    Includes(errorMsg, <<"404">>) \/ Includes(errorMsg, <<"Not Found">>)

NeedsAvatarSync_AnyDifference(ui, existing) ==
    existing.avatarUrl # ui.picture

\* userInfo.picture && existingProfile.avatarUrl !== userInfo.picture
NeedsAvatarSync(ui, existing) ==
    Truthy(ui.picture) /\ existing.avatarUrl # ui.picture

\* The arguments of api.profiles.update.
UpdateArgs(existing, ui) ==
    [id |-> existing.id,
     fields |-> [id |-> existing.id, email |-> existing.email,
                 displayName |-> existing.displayName,
                 avatarUrl |-> ui.picture, provider |-> "google"]]

AvatarSync_Propagates(existing, ui, response) ==
    IF response.ok
        THEN [existingProfile |->
                  [existing EXCEPT !.avatarUrl = ui.picture, !.provider = "google"],
              thrown |-> NoError]
        ELSE [existingProfile |-> existing, thrown |-> response.err]

\* try { await update; existingProfile.avatarUrl = ...; .provider = ... }
\* catch (updateErr) { }
AvatarSync(existing, ui, response) ==
    IF response.ok
        THEN [existingProfile |->
                  [existing EXCEPT !.avatarUrl = ui.picture, !.provider = "google"],
              thrown |-> NoError]
        ELSE [existingProfile |-> existing, thrown |-> NoError]

\* { ...profile, provider: 'google' }
LoginArg_AsReturned(profile) == profile

LoginArg(profile) == [profile EXCEPT !.provider = "google"]

\* The arguments of api.auth.register.
RegisterArgs(ui, pwd) ==
    [email |-> ui.email, password |-> pwd,
     displayName |-> ui.name, avatarUrl |-> ui.picture]

OnRegisterSettled_LoginAnyway(ui, response) ==
    IF response.ok
        THEN [logins |-> <<LoginArg(response.profile)>>, thrown |-> NoError]
        ELSE [logins |-> <<LoginArg([id |-> NoId, email |-> ui.email,
                                     displayName |-> ui.name,
                                     avatarUrl |-> ui.picture,
                                     provider |-> NoStr])>>,
              thrown |-> response.err]

\* const newProfile = await api.auth.register(...); login({...}); a rejection
\* leaves the try block before login.
OnRegisterSettled(ui, response) ==
    IF response.ok
        THEN [logins |-> <<LoginArg(response.profile)>>, thrown |-> NoError]
        ELSE [logins |-> << >>, thrown |-> response.err]

CatchMessage_NoFallback(err) ==
    IF err.isError THEN err.message ELSE NoMsg

\* The outer catch: err instanceof Error ? err.message : fallback text.
CatchMessage(err) ==
    IF err.isError THEN err.message ELSE MsgGoogleFallback

(***************************************************************************)
(* The generated credential and the password policy.                       *)
(***************************************************************************)
\* Array(16): the number of random characters drawn.
PasswordDraws == 16

Letters ==
    { "a", "b", "c", "d", "e", "f", "g", "h", "i", "j", "k", "l", "m",
      "n", "o", "p", "q", "r", "s", "t", "u", "v", "w", "x", "y", "z",
      "A", "B", "C", "D", "E", "F", "G", "H", "I", "J", "K", "L", "M",
      "N", "O", "P", "Q", "R", "S", "T", "U", "V", "W", "X", "Y", "Z" }
Digits == { "0", "1", "2", "3", "4", "5", "6", "7", "8", "9" }

\* Math.random().toString(36) for three draws: exactly 0 (text "0"), a
\* value whose first base-36 fraction digit is a digit, and one whose
\* first fraction digit is a letter.  A string is its sequence of
\* characters.
RandomTexts == { <<"0">>, <<"0", ".", "9", "x">>, <<"0", ".", "k", "3">> }

\* String.prototype.charAt(index), index from 0: '' when out of range.
CharAt(text, index) ==
    IF index + 1 <= Len(text) THEN <<text[index + 1]>> ELSE << >>

PasswordSuffix == <<"A", "a", "1">>

\* password.length >= 6 && /[a-zA-Z]/.test(password) && /[0-9]/.test(password)
validatePassword(pwd) ==
    /\ Len(pwd) >= 6
    /\ \E k \in 1..Len(pwd) : pwd[k] \in Letters
    /\ \E k \in 1..Len(pwd) : pwd[k] \in Digits

RECURSIVE Join(_)
\* Array.prototype.join('') of the characters drawn.
Join(chars) ==
    IF chars = << >> THEN << >> ELSE Head(chars) \o Join(Tail(chars))

\* The credential for a given sequence of Math.random() texts.
GeneratedPassword(texts) ==
    Join([k \in 1..Len(texts) |-> CharAt(texts[k], 2)]) \o PasswordSuffix

\* The credentials the reconciliation sends in this model: every draw
\* exactly 0, and every draw with a letter as first fraction digit.
SamplePasswords ==
    { GeneratedPassword([k \in 1..PasswordDraws |-> t]) :
          t \in { <<"0">>, <<"0", ".", "k", "3">> } }

(***************************************************************************)
(* useAuthStore.                                                           *)
(***************************************************************************)
\* partialize: (state) => ({ user, isAuthenticated })
partialize_UserOnly(u, authenticated) == [user |-> u, isAuthenticated |-> FALSE]

partialize(u, authenticated) == [user |-> u, isAuthenticated |-> authenticated]

\* login: (user) => set({ user, isAuthenticated: true, authError: null })
login_FirstWriterWins(u) ==
    /\ user' = IF isAuthenticated THEN user ELSE u
    /\ isAuthenticated' = TRUE
    /\ authError' = NoMsg
    /\ UNCHANGED isAuthLoading
    /\ persisted' = partialize(IF isAuthenticated THEN user ELSE u, TRUE)
    /\ lastOp' = "login"

login(u) ==
    /\ user' = u
    /\ isAuthenticated' = TRUE
    /\ authError' = NoMsg
    /\ UNCHANGED isAuthLoading
    /\ persisted' = partialize(u, TRUE)
    /\ lastOp' = "login"

\* setUser: (user) => set({ user, isAuthenticated: !!user })
setUser(u) ==
    /\ user' = u
    /\ isAuthenticated' = (u # NoProfile)
    /\ UNCHANGED <<authError, isAuthLoading>>
    /\ persisted' = partialize(u, u # NoProfile)
    /\ lastOp' = "setUser"

\* setAuthLoading: (loading) => set({ isAuthLoading: loading })
setAuthLoading(loading) ==
    /\ isAuthLoading' = loading
    /\ UNCHANGED <<user, isAuthenticated, authError>>
    /\ persisted' = partialize(user, isAuthenticated)
    /\ lastOp' = "setAuthLoading"

\* setAuthError: (error) => set({ authError: error })
setAuthError(msg) ==
    /\ authError' = msg
    /\ UNCHANGED <<user, isAuthenticated, isAuthLoading>>
    /\ persisted' = partialize(user, isAuthenticated)
    /\ lastOp' = "setAuthError"

\* logout: () => set({ user: null, isAuthenticated: false, authError: null })
logout_KeepsUser ==
    /\ UNCHANGED user
    /\ isAuthenticated' = FALSE
    /\ authError' = NoMsg
    /\ UNCHANGED isAuthLoading
    /\ persisted' = partialize(user, FALSE)
    /\ lastOp' = "logout"

logout_ResetsEverything ==
    /\ user' = NoProfile
    /\ isAuthenticated' = FALSE
    /\ authError' = NoMsg
    /\ isAuthLoading' = FALSE
    /\ persisted' = partialize(NoProfile, FALSE)
    /\ lastOp' = "logout"

logout ==
    /\ user' = NoProfile
    /\ isAuthenticated' = FALSE
    /\ authError' = NoMsg
    /\ UNCHANGED isAuthLoading
    /\ persisted' = partialize(NoProfile, FALSE)
    /\ lastOp' = "logout"

\* The store as persist re-creates it on a page load: the initial state
\* with the partialized fields of 'nexus-auth' merged over it.
rehydrate ==
    /\ user' = persisted.user
    /\ isAuthenticated' = persisted.isAuthenticated
    /\ isAuthLoading' = FALSE
    /\ authError' = NoMsg
    /\ UNCHANGED persisted
    /\ lastOp' = "rehydrate"

(***************************************************************************)
(* AuthModal form.                                                         *)
(***************************************************************************)
MsgInvalidEmail == <<"Please enter a valid email address">>
MsgWeakPassword ==
    <<"Password must be at least 6 characters with letters and numbers">>
MsgAccountNotFound == <<"Account not found. Please sign up first.">>
MsgRegister404 ==
    <<"Registration failed. The server returned 404 - check if the API endpoint exists.">>
MsgCannotConnect ==
    <<"Cannot connect to server. Please check if the backend is running.">>
MsgAuthFailed == <<"Authentication failed">>

\* What can be typed into the email field, and the characters of each.
FormEmails == {"", "a@x", "a@x.com", "b@x.com"}
Chars(e) ==
    CASE e = "" -> << >>
      [] e = "a@x" -> <<"a", "@", "x">>
      [] e = "a@x.com" -> <<"a", "@", "x", ".", "c", "o", "m">>
      [] e = "b@x.com" -> <<"b", "@", "x", ".", "c", "o", "m">>

\* What can be typed into the password field: nothing, a password with
\* letters and digits, one without a digit.
FormPasswords ==
    { << >>, <<"a", "b", "c", "1", "2", "3">>, <<"a", "b", "c", "d", "e", "f">> }
FormNames == {"", "Ann"}

\* /^[^\s@]+@[^\s@]+\.[^\s@]+$/.test(email)
validateEmail(e) ==
    LET c == Chars(e)
        plain(from, to) ==
            /\ from <= to
            /\ \A k \in from..to : c[k] \notin {" ", "@"}
    IN  \E at \in 1..Len(c), dot \in 1..Len(c) :
            /\ c[at] = "@"
            /\ c[dot] = "."
            /\ at < dot
            /\ plain(1, at - 1)
            /\ plain(at + 1, dot - 1)
            /\ plain(dot + 1, Len(c))

NoSubmission == [mode |-> "login", email |-> "", password |-> << >>,
                 displayName |-> ""]

\* resetForm: setEmail(''); setPassword(''); setDisplayName('') (its
\* setError(null) is applied where resetForm is called).
resetFormFields ==
    /\ email' = ""
    /\ password' = << >>
    /\ displayName' = ""

(***************************************************************************)
(* handleGoogleLogin.onSuccess: one action per resumption of the handler.  *)
(***************************************************************************)
\* The end of an invocation: the login calls made on the way out (followed
\* by onClose and resetForm, which clears the error), the outer catch when
\* something was thrown, and the finally block.
Terminate_NoFinally(i, logins, thrown) ==
    /\ loginCalls' = [loginCalls EXCEPT ![i] = @ \o logins]
    /\ IF logins # << >>
          THEN login(logins[Len(logins)])
          ELSE UNCHANGED storeVars
    /\ error' = IF thrown # NoError THEN CatchMessage(thrown)
                ELSE IF logins # << >> THEN NoMsg ELSE error
    /\ shown' = [shown EXCEPT ![i] =
                    IF thrown # NoError THEN CatchMessage(thrown) ELSE NoMsg]
    /\ IF logins # << >> /\ thrown = NoError
          THEN resetFormFields
          ELSE UNCHANGED <<email, password, displayName>>
    /\ UNCHANGED <<mode, isLoading>>
    /\ lastWriter' = IF logins # << >> THEN i ELSE lastWriter
    /\ isGoogleLoading' = IF thrown # NoError THEN isGoogleLoading ELSE FALSE
    /\ pc' = [pc EXCEPT ![i] = "done"]
    /\ result' = [result EXCEPT ![i] =
                     IF thrown # NoError THEN "failure"
                     ELSE IF logins # << >> THEN "success" ELSE "fallthrough"]

Terminate(i, logins, thrown) ==
    /\ loginCalls' = [loginCalls EXCEPT ![i] = @ \o logins]
    /\ IF logins # << >>
          THEN login(logins[Len(logins)])
          ELSE UNCHANGED storeVars
    /\ error' = IF thrown # NoError THEN CatchMessage(thrown)
                ELSE IF logins # << >> THEN NoMsg ELSE error
    /\ shown' = [shown EXCEPT ![i] =
                    IF thrown # NoError THEN CatchMessage(thrown) ELSE NoMsg]
    /\ IF logins # << >> /\ thrown = NoError
          THEN resetFormFields
          ELSE UNCHANGED <<email, password, displayName>>
    /\ UNCHANGED <<mode, isLoading>>
    /\ lastWriter' = IF logins # << >> THEN i ELSE lastWriter
    /\ isGoogleLoading' = FALSE
    /\ pc' = [pc EXCEPT ![i] = "done"]
    /\ result' = [result EXCEPT ![i] =
                     IF thrown # NoError THEN "failure"
                     ELSE IF logins # << >> THEN "success" ELSE "fallthrough"]

\* setIsGoogleLoading(true); setError(null); fetch(userinfo) is issued.
Start(i) ==
    /\ pc[i] \in {"idle", "done"}
    /\ pc' = [pc EXCEPT ![i] = "userinfo"]
    /\ isGoogleLoading' = TRUE
    /\ error' = NoMsg
    /\ userInfo' = [userInfo EXCEPT ![i] = NoUserInfo]
    /\ existingProfile' = [existingProfile EXCEPT ![i] = NoProfile]
    /\ shouldRegister' = [shouldRegister EXCEPT ![i] = FALSE]
    /\ registerCalls' = [registerCalls EXCEPT ![i] = << >>]
    /\ updateCalls' = [updateCalls EXCEPT ![i] = << >>]
    /\ loginCalls' = [loginCalls EXCEPT ![i] = << >>]
    /\ shown' = [shown EXCEPT ![i] = NoMsg]
    /\ lookupOutcome' = [lookupOutcome EXCEPT ![i] =
                            [kind |-> "none", hadProfile |-> FALSE,
                             profile |-> NoProfile]]
    /\ updateOutcome' = [updateOutcome EXCEPT ![i] = "none"]
    /\ registerOutcome' = [registerOutcome EXCEPT ![i] = "none"]
    /\ writeError' = [writeError EXCEPT ![i] = NoError]
    /\ result' = [result EXCEPT ![i] = "none"]
    /\ sessionBefore' = [sessionBefore EXCEPT ![i] =
                            [user |-> user, isAuthenticated |-> isAuthenticated]]
    /\ pendingAtLogout' = pendingAtLogout \ {i}
    /\ UNCHANGED <<backendVars, storeVars, formVars, isLoading, lastWriter,
                   passwordVars, pageVars, tokenVars, submitVars>>

\* await fetch(userinfo) settles: rejected, answered not ok, or ok.
UserInfoFetched(i) ==
    /\ pc[i] = "userinfo"
    /\ \/ /\ Terminate(i, << >>, Err(MsgFailedToFetch))
          /\ UNCHANGED <<userInfo>>
       \/ /\ Terminate(i, << >>, Err(MsgUserInfoFailed))
          /\ UNCHANGED <<userInfo>>
       \/ /\ pc' = [pc EXCEPT ![i] = "json"]
          /\ UNCHANGED <<userInfo, storeVars, modalVars, loginCalls, shown,
                         result, lastWriter>>
    /\ UNCHANGED <<backendVars, existingProfile, shouldRegister, registerCalls,
                   updateCalls, lookupOutcome, updateOutcome, registerOutcome,
                   writeError, sessionBefore, pendingAtLogout, passwordVars, pageVars,
                   tokenVars, submitVars>>

\* await userInfoRes.json() settles; on success getByEmail is issued.
UserInfoParsed(i) ==
    /\ pc[i] = "json"
    /\ \/ /\ Terminate(i, << >>, Err(MsgNotJson))
          /\ UNCHANGED <<userInfo>>
       \/ /\ \E ui \in UserInfos : userInfo' = [userInfo EXCEPT ![i] = ui]
          /\ pc' = [pc EXCEPT ![i] = "lookup"]
          /\ UNCHANGED <<storeVars, modalVars, loginCalls, shown, result, lastWriter>>
    /\ UNCHANGED <<backendVars, existingProfile, shouldRegister, registerCalls,
                   updateCalls, lookupOutcome, updateOutcome, registerOutcome,
                   writeError, sessionBefore, pendingAtLogout, passwordVars, pageVars,
                   tokenVars, submitVars>>

\* await api.profiles.getByEmail settles: the classification of a failure,
\* then the existing-profile path up to the update call or the login, or
\* the new-profile path up to the register call.
LookupReturned(i) ==
    /\ pc[i] = "lookup"
    /\ \E r \in LookupResponses(userInfo[i].email) :
        LET ui == userInfo[i]
            threw == r.err # NoError
            register == threw /\ IsNotFoundMessage(ErrorMsgOf(r.err))
        IN
        /\ lookupOutcome' = [lookupOutcome EXCEPT ![i] =
                                [kind |-> r.kind,
                                 hadProfile |-> profiles[ui.email] # NoProfile,
                                 profile |-> r.profile]]
        /\ existingProfile' = [existingProfile EXCEPT ![i] = r.profile]
        /\ shouldRegister' = [shouldRegister EXCEPT ![i] = register]
        /\ IF threw /\ ~register
              THEN /\ Terminate(i, << >>, Err(MsgCouldNotVerify))
                   /\ UNCHANGED <<registerCalls, updateCalls>>
           ELSE IF r.profile # NoProfile
              THEN IF NeedsAvatarSync(ui, r.profile)
                      THEN /\ updateCalls' = [updateCalls EXCEPT ![i] =
                                                 Append(@, UpdateArgs(r.profile, ui))]
                           /\ pc' = [pc EXCEPT ![i] = "update"]
                           /\ UNCHANGED <<registerCalls, storeVars, modalVars,
                                          loginCalls, shown, result, lastWriter>>
                      ELSE /\ Terminate(i, <<LoginArg(r.profile)>>, NoError)
                           /\ UNCHANGED <<registerCalls, updateCalls>>
           ELSE IF register
              THEN /\ \E pwd \in SamplePasswords :
                          registerCalls' = [registerCalls EXCEPT ![i] =
                                               Append(@, RegisterArgs(ui, pwd))]
                   /\ pc' = [pc EXCEPT ![i] = "register"]
                   /\ UNCHANGED <<updateCalls, storeVars, modalVars,
                                  loginCalls, shown, result, lastWriter>>
           ELSE /\ Terminate(i, << >>, NoError)
                /\ UNCHANGED <<registerCalls, updateCalls>>
    /\ UNCHANGED <<backendVars, userInfo, updateOutcome, registerOutcome, writeError,
                   sessionBefore, pendingAtLogout, passwordVars, pageVars, tokenVars, submitVars>>

\* await api.profiles.update settles; then login, onClose, resetForm, return.
UpdateSettled(i) ==
    /\ pc[i] = "update"
    /\ \E r \in UpdateResponses(updateCalls[i][1]) :
        LET s == AvatarSync(existingProfile[i], userInfo[i], r) IN
        /\ profiles' = IF r.ok
                          THEN [profiles EXCEPT ![r.profile.email] = r.profile]
                          ELSE profiles
        /\ updateOutcome' = [updateOutcome EXCEPT ![i] =
                                IF r.ok THEN "ok" ELSE "failed"]
        /\ writeError' = [writeError EXCEPT ![i] = r.err]
        /\ existingProfile' = [existingProfile EXCEPT ![i] = s.existingProfile]
        /\ IF s.thrown # NoError
              THEN Terminate(i, << >>, s.thrown)
              ELSE Terminate(i, <<LoginArg(s.existingProfile)>>, NoError)
    /\ UNCHANGED <<userInfo, shouldRegister, registerCalls, updateCalls,
                   lookupOutcome, registerOutcome, sessionBefore, pendingAtLogout,
                   passwordVars, pageVars, tokenVars, submitVars>>

\* await api.auth.register settles; then login, onClose, resetForm.
RegisterSettled(i) ==
    /\ pc[i] = "register"
    /\ \E r \in RegisterResponses(registerCalls[i][1]) :
        LET s == OnRegisterSettled(userInfo[i], r) IN
        /\ profiles' = IF r.ok
                          THEN [profiles EXCEPT ![r.profile.email] = r.profile]
                          ELSE profiles
        /\ registerOutcome' = [registerOutcome EXCEPT ![i] =
                                  IF r.ok THEN "ok" ELSE "failed"]
        /\ writeError' = [writeError EXCEPT ![i] = r.err]
        /\ Terminate(i, s.logins, s.thrown)
    /\ UNCHANGED <<userInfo, existingProfile, shouldRegister, registerCalls,
                   updateCalls, lookupOutcome, updateOutcome, sessionBefore, pendingAtLogout,
                   passwordVars, pageVars, tokenVars, submitVars>>

(***************************************************************************)
(* Initial state: one profile stored (b@x.com, no avatar), nobody signed   *)
(* in, no invocation started, the hook not mounted.                        *)
(***************************************************************************)
InitialProfiles ==
    [e \in Emails |->
        IF e = "b@x.com"
            THEN [id |-> NewId(e), email |-> e, displayName |-> "Bea",
                  avatarUrl |-> NoStr, provider |-> "local"]
            ELSE NoProfile]

Init ==
    /\ profiles = InitialProfiles
    /\ user = NoProfile
    /\ isAuthenticated = FALSE
    /\ authError = NoMsg
    /\ isAuthLoading = FALSE
    /\ persisted = partialize(NoProfile, FALSE)
    /\ lastOp = "create"
    /\ isGoogleLoading = FALSE
    /\ error = NoMsg
    /\ mode = "login"
    /\ email = ""
    /\ password = << >>
    /\ displayName = ""
    /\ isLoading = FALSE
    /\ lastWriter = 0
    /\ pendingAtLogout = {}
    /\ submitPc = "idle"
    /\ submitted = NoSubmission
    /\ authCalls = << >>
    /\ submitShown = NoMsg
    /\ submitResult = [status |-> "none", kind |-> "none", err |-> NoError]
    /\ submitSessionBefore = [user |-> NoProfile, isAuthenticated |-> FALSE]
    /\ loadingRaised = FALSE
    /\ pc = [i \in AllInvocations |-> "idle"]
    /\ userInfo = [i \in AllInvocations |-> NoUserInfo]
    /\ existingProfile = [i \in AllInvocations |-> NoProfile]
    /\ shouldRegister = [i \in AllInvocations |-> FALSE]
    /\ registerCalls = [i \in AllInvocations |-> << >>]
    /\ updateCalls = [i \in AllInvocations |-> << >>]
    /\ loginCalls = [i \in AllInvocations |-> << >>]
    /\ shown = [i \in AllInvocations |-> NoMsg]
    /\ lookupOutcome = [i \in AllInvocations |->
                           [kind |-> "none", hadProfile |-> FALSE,
                            profile |-> NoProfile]]
    /\ updateOutcome = [i \in AllInvocations |-> "none"]
    /\ registerOutcome = [i \in AllInvocations |-> "none"]
    /\ writeError = [i \in AllInvocations |-> NoError]
    /\ result = [i \in AllInvocations |-> "none"]
    /\ sessionBefore = [i \in AllInvocations |->
                           [user |-> NoProfile, isAuthenticated |-> FALSE]]
    /\ drawsDone = 0
    /\ randomPassword = << >>
    /\ passwordPc = "map"
    /\ localStorageToken = NoStr
    /\ storedToken = NoStr
    /\ refreshKey = 0
    /\ hasStoredToken = FALSE
    /\ sessionToken = NoStr
    /\ sessionProvider = NoStr
    /\ mounted = "no"
    /\ lastEvent = "none"
    /\ cbPc = "none"
    /\ cbOpener = FALSE
    /\ cbPosted = << >>
    /\ cbClosed = FALSE
    /\ cbHref = "none"
    /\ qKey = [hook |-> "none", courseId |-> "", token |-> NoStr]
    /\ qStatus = "idle"
    /\ qFailureCount = 0
    /\ qFetches = << >>
    /\ qLastError = NoError
    /\ mOpen = FALSE
    /\ activeTab = "all"
    /\ loadingItemId = NoStr
    /\ renderedLoadingItemId = NoStr
    /\ itemSelectCalls = << >>

(***************************************************************************)
(* Credential generation, one Math.random() draw at a time.                *)
(***************************************************************************)
\* .map(() => Math.random().toString(36).charAt(2)), joined as it is drawn.
DrawCharacter ==
    /\ passwordPc = "map"
    /\ drawsDone < PasswordDraws
    /\ \E text \in RandomTexts :
           randomPassword' = randomPassword \o CharAt(text, 2)
    /\ drawsDone' = drawsDone + 1
    /\ UNCHANGED <<passwordPc, reconcileVars, tokenVars, submitVars, pageVars>>

\* .join('') + 'Aa1'
AppendSuffix ==
    /\ passwordPc = "map"
    /\ drawsDone = PasswordDraws
    /\ randomPassword' = randomPassword \o PasswordSuffix
    /\ passwordPc' = "done"
    /\ UNCHANGED <<drawsDone, reconcileVars, tokenVars, submitVars, pageVars>>

NextPassword == DrawCharacter \/ AppendSuffix

SpecPassword == Init /\ [][NextPassword]_vars

(***************************************************************************)
(* useClassroomAccessToken.                                                *)
(***************************************************************************)
\* The most refreshes of one mounted hook that the model follows.
MaxRefreshKey == 4

StoredTokens == {"S", "S2"}
SessionTokens == {"T"}
Providers == {"google", "credentials"}
TokenKey == "classroom_access_token"
StorageKeys == {TokenKey, "nexus-auth"}

\* getClassroomToken(): the token kept in localStorage, or null.
getClassroomToken == localStorageToken

accessToken_SessionFirst ==
    IF Truthy(sessionToken) THEN sessionToken ELSE storedToken

\* const accessToken = storedToken || sessionToken
accessToken ==
    IF Truthy(storedToken) THEN storedToken ELSE sessionToken

\* const hasAccess = !!accessToken
hasAccess == Truthy(accessToken)

\* refreshToken: setStoredToken(getClassroomToken()); setRefreshKey(+1)
refreshToken ==
    /\ refreshKey < MaxRefreshKey
    /\ storedToken' = getClassroomToken
    /\ refreshKey' = refreshKey + 1

\* hasValidClassroomToken(): whether localStorage holds a token.
hasValidClassroomToken == Truthy(localStorageToken)

\* checkStoredToken: setHasStoredToken(hasValidClassroomToken())
checkStoredToken == hasStoredToken' = hasValidClassroomToken

\* useHasClassroomAccess:
\* const hasAccess = (isGoogleUser && sessionAccessToken) || hasStoredToken
isGoogleUser == sessionProvider = "google"
sessionAccessToken == Truthy(sessionToken)
hasClassroomAccess == (isGoogleUser /\ sessionAccessToken) \/ hasStoredToken

\* First render: useState(null), useState(0), useState(false); the effects
\* have not run yet.
Render ==
    /\ mounted = "no"
    /\ lastEvent' = "render"
    /\ mounted' = "rendered"
    /\ storedToken' = NoStr
    /\ hasStoredToken' = FALSE
    /\ refreshKey' = 0
    /\ UNCHANGED <<localStorageToken, sessionToken, sessionProvider,
                   reconcileVars, passwordVars, pageVars, submitVars>>

\* The effect: refreshToken() on mount, then the two listeners are added.
RunEffect ==
    /\ mounted = "rendered"
    /\ lastEvent' = "mount"
    /\ refreshToken
    /\ checkStoredToken
    /\ mounted' = "subscribed"
    /\ UNCHANGED <<localStorageToken, sessionToken, sessionProvider,
                   reconcileVars, passwordVars, pageVars, submitVars>>

StorageEvent_AnyKey(key) ==
    /\ mounted = "subscribed"
    /\ lastEvent' = "storage:" \o key
    /\ refreshToken
    /\ checkStoredToken
    /\ UNCHANGED <<mounted, localStorageToken, sessionToken, sessionProvider,
                   reconcileVars, passwordVars, pageVars, submitVars>>

\* handleStorageChange(e)
StorageEvent(key) ==
    /\ mounted = "subscribed"
    /\ lastEvent' = "storage:" \o key
    /\ IF key = TokenKey
          THEN refreshToken /\ checkStoredToken
          ELSE UNCHANGED <<storedToken, refreshKey, hasStoredToken>>
    /\ UNCHANGED <<mounted, localStorageToken, sessionToken, sessionProvider,
                   reconcileVars, passwordVars, pageVars, submitVars>>

\* handleClassroomAuth()
ClassroomAuthSuccess ==
    /\ mounted = "subscribed"
    /\ lastEvent' = "classroom-auth-success"
    /\ refreshToken
    /\ checkStoredToken
    /\ UNCHANGED <<mounted, localStorageToken, sessionToken, sessionProvider,
                   reconcileVars, passwordVars, pageVars, submitVars>>

\* The session changes; a subscribed hook runs its effect again
\* (dependencies [session, refreshToken]).
SessionChanged(token, provider) ==
    /\ <<token, provider>> # <<sessionToken, sessionProvider>>
    /\ lastEvent' = "session"
    /\ sessionToken' = token
    /\ sessionProvider' = provider
    /\ IF mounted = "subscribed"
          THEN refreshToken /\ checkStoredToken
          ELSE UNCHANGED <<storedToken, refreshKey, hasStoredToken>>
    /\ UNCHANGED <<mounted, localStorageToken, reconcileVars, passwordVars, pageVars, submitVars>>

\* The connect-Classroom popup (or another tab) writes or removes the token.
TokenWritten(token) ==
    /\ localStorageToken # token
    /\ lastEvent' = "write"
    /\ localStorageToken' = token
    /\ UNCHANGED <<storedToken, refreshKey, hasStoredToken, mounted, sessionToken,
                   sessionProvider, reconcileVars, passwordVars, pageVars, submitVars>>

\* The host component unmounts; the hook's state is dropped.
Unmount ==
    /\ mounted # "no"
    /\ lastEvent' = "unmount"
    /\ mounted' = "no"
    /\ storedToken' = NoStr
    /\ hasStoredToken' = FALSE
    /\ refreshKey' = 0
    /\ UNCHANGED <<localStorageToken, sessionToken, sessionProvider,
                   reconcileVars, passwordVars, pageVars, submitVars>>

NextToken ==
    \/ Render
    \/ RunEffect
    \/ \E key \in StorageKeys : StorageEvent(key)
    \/ ClassroomAuthSuccess
    \/ \E token \in SessionTokens \cup {NoStr}, provider \in Providers \cup {NoStr} :
           SessionChanged(token, provider)
    \/ \E token \in StoredTokens \cup {NoStr} : TokenWritten(token)
    \/ Unmount

SpecToken == Init /\ [][NextToken]_vars

Next ==
    \E i \in Invocations :
        \/ Start(i)
        \/ UserInfoFetched(i)
        \/ UserInfoParsed(i)
        \/ LookupReturned(i)
        \/ UpdateSettled(i)
        \/ RegisterSettled(i)

Spec == Init /\ [][Next]_vars

(***************************************************************************)
(* handleSubmit: the decisions of the handler.                             *)
(***************************************************************************)
\* The two checks before anything is sent (the mode is not consulted):
\* the message to show, or none when both pass.
SubmitValidation_EmailOnly(e, p) ==
    IF ~validateEmail(e) THEN MsgInvalidEmail ELSE NoMsg

SubmitValidation(e, p) ==
    IF ~validateEmail(e) THEN MsgInvalidEmail
    ELSE IF ~validatePassword(p) THEN MsgWeakPassword
    ELSE NoMsg

\* The call the try block issues for the mode.
SubmitCall(m, e, p, d) ==
    IF m = "signup"
        THEN [op |-> "register", email |-> e, password |-> p,
              displayName |-> IF d # "" THEN d ELSE NoStr, avatarUrl |-> NoStr]
        ELSE [op |-> "login", email |-> e, password |-> p]

\* The catch block.
SubmitCatchMessage_RawMessage(m, err) ==
    IF err.isError THEN err.message ELSE MsgAuthFailed

SubmitCatchMessage(m, err) ==
    IF err.isError
        THEN IF Includes(err.message, <<"404">>)
                    \/ Includes(err.message, <<"Not Found">>)
                THEN IF m = "login" THEN MsgAccountNotFound ELSE MsgRegister404
                ELSE IF Includes(err.message, <<"Failed to fetch">>)
                    THEN MsgCannotConnect
                    ELSE err.message
        ELSE MsgAuthFailed

\* What actually happened to a register call, from the value it settled
\* with.
WriteOutcomeKind(r) ==
    IF r.ok THEN "Created"
    ELSE IF r.err = Err(MsgFailedToFetch) THEN "Network"
    ELSE IF r.err = Err(MsgConflict) THEN "Conflict"
    ELSE IF r.err.isError /\ Includes(r.err.message, <<"404">>) THEN "NotFound"
    ELSE "Server"

\* The ways the call in flight can settle.
SubmitResponses(call) ==
    IF call.op = "register"
        THEN { [ok |-> r.ok, kind |-> WriteOutcomeKind(r), profile |-> r.profile,
                err |-> r.err] : r \in RegisterResponses(call) }
        ELSE LoginResponses(call)

(***************************************************************************)
(* The form and handleSubmit, one action per event or resumption.          *)
(***************************************************************************)
\* onChange of the email input.
SetEmail(e) ==
    /\ email' = e
    /\ UNCHANGED <<backendVars, storeVars, isGoogleLoading, error, mode,
                   password, displayName, isLoading, localVars, historyVars,
                   passwordVars, pageVars, tokenVars, submitVars>>

\* onChange of the password input.
SetPassword(p) ==
    /\ password' = p
    /\ UNCHANGED <<backendVars, storeVars, isGoogleLoading, error, mode,
                   email, displayName, isLoading, localVars, historyVars,
                   passwordVars, pageVars, tokenVars, submitVars>>

\* onChange of the display name input, rendered in signup mode only.
SetDisplayName(d) ==
    /\ mode = "signup"
    /\ displayName' = d
    /\ UNCHANGED <<backendVars, storeVars, isGoogleLoading, error, mode,
                   email, password, isLoading, localVars, historyVars,
                   passwordVars, pageVars, tokenVars, submitVars>>

\* switchMode
SwitchMode ==
    /\ mode' = IF mode = "login" THEN "signup" ELSE "login"
    /\ error' = NoMsg
    /\ UNCHANGED <<backendVars, storeVars, isGoogleLoading, email, password,
                   displayName, isLoading, localVars, historyVars,
                   passwordVars, pageVars, tokenVars, submitVars>>

\* The requests that can write the session: the Google invocations by
\* their number, handleSubmit's call under the number no invocation has.
SubmitRequest == 0
InFlight ==
    { i \in AllInvocations : pc[i] \notin {"idle", "done"} }
    \cup (IF submitPc = "awaiting" THEN {SubmitRequest} ELSE {})

\* handleSubmit up to its first await: setError(null), the validation and
\* its early returns, setIsLoading(true), the call for the mode.  The
\* submit button is disabled while isLoading.
Submit ==
    /\ ~isLoading
    /\ submitted' = [mode |-> mode, email |-> email, password |-> password,
                     displayName |-> displayName]
    /\ submitSessionBefore' = [user |-> user, isAuthenticated |-> isAuthenticated]
    /\ LET invalid == SubmitValidation(email, password)
       IN  IF invalid # NoMsg
               THEN /\ error' = invalid
                    /\ submitShown' = invalid
                    /\ submitResult' = [status |-> "invalid", kind |-> "none",
                                        err |-> NoError]
                    /\ authCalls' = << >>
                    /\ loadingRaised' = FALSE
                    /\ submitPc' = "idle"
                    /\ UNCHANGED isLoading
               ELSE /\ error' = NoMsg
                    /\ submitShown' = NoMsg
                    /\ submitResult' = [status |-> "pending", kind |-> "none",
                                        err |-> NoError]
                    /\ authCalls' = <<SubmitCall(mode, email, password, displayName)>>
                    /\ loadingRaised' = TRUE
                    /\ submitPc' = "awaiting"
                    /\ isLoading' = TRUE
    /\ pendingAtLogout' = pendingAtLogout \ {SubmitRequest}
    /\ UNCHANGED <<backendVars, storeVars, isGoogleLoading, formVars, localVars,
                   callHistoryVars, passwordVars, pageVars, tokenVars>>

\* The awaited call settles: login, onClose and resetForm when it
\* resolved, the catch block when it rejected, then the finally block.
SubmitSettled ==
    /\ submitPc = "awaiting"
    /\ \E r \in SubmitResponses(authCalls[1]) :
           /\ profiles' = IF authCalls[1].op = "register" /\ r.ok
                              THEN [profiles EXCEPT ![authCalls[1].email] = r.profile]
                              ELSE profiles
           /\ IF r.ok
                 THEN /\ login(r.profile)
                      /\ resetFormFields
                      /\ error' = NoMsg
                      /\ submitShown' = NoMsg
                      /\ lastWriter' = 0
                 ELSE /\ UNCHANGED <<storeVars, email, password, displayName,
                                     lastWriter>>
                      /\ error' = SubmitCatchMessage(submitted.mode, r.err)
                      /\ submitShown' = SubmitCatchMessage(submitted.mode, r.err)
           /\ submitResult' = [status |-> IF r.ok THEN "success" ELSE "failure",
                               kind |-> r.kind, err |-> r.err]
    /\ isLoading' = FALSE
    /\ submitPc' = "idle"
    /\ UNCHANGED <<isGoogleLoading, mode, localVars, registerCalls, updateCalls,
                   loginCalls, shown, lookupOutcome, updateOutcome,
                   registerOutcome, writeError, result, sessionBefore,
                   pendingAtLogout, submitted, authCalls,
                   submitSessionBefore, loadingRaised, passwordVars, pageVars, tokenVars>>

(***************************************************************************)
(* useAuthStore operations called from outside the modal, and a reload.    *)
(***************************************************************************)
\* The profiles setUser is called with here: none, or a stored one.
SettableUsers == {NoProfile, InitialProfiles["b@x.com"]}
AuthErrors == {NoMsg, <<"Session expired">>}

SetUser(u) ==
    /\ setUser(u)
    /\ UNCHANGED <<backendVars, modalVars, localVars, historyVars,
                   passwordVars, pageVars, tokenVars, submitVars>>

SetAuthLoading(loading) ==
    /\ setAuthLoading(loading)
    /\ UNCHANGED <<backendVars, modalVars, localVars, historyVars,
                   passwordVars, pageVars, tokenVars, submitVars>>

SetAuthError(msg) ==
    /\ setAuthError(msg)
    /\ UNCHANGED <<backendVars, modalVars, localVars, historyVars,
                   passwordVars, pageVars, tokenVars, submitVars>>

Logout ==
    /\ logout
    /\ pendingAtLogout' = InFlight
    /\ UNCHANGED <<backendVars, modalVars, localVars, callHistoryVars,
                   passwordVars, pageVars, tokenVars, submitVars>>

\* The page is reloaded: every component and handler in flight is gone,
\* component state is back at its useState initial values, and the store
\* is re-created from what persist saved.
Reload ==
    /\ rehydrate
    /\ isGoogleLoading' = FALSE
    /\ isLoading' = FALSE
    /\ error' = NoMsg
    /\ mode' = "login"
    /\ resetFormFields
    /\ pc' = [i \in AllInvocations |-> "idle"]
    /\ userInfo' = [i \in AllInvocations |-> NoUserInfo]
    /\ existingProfile' = [i \in AllInvocations |-> NoProfile]
    /\ shouldRegister' = [i \in AllInvocations |-> FALSE]
    /\ submitPc' = "idle"
    /\ mounted' = "no"
    /\ storedToken' = NoStr
    /\ hasStoredToken' = FALSE
    /\ refreshKey' = 0
    /\ lastEvent' = IF mounted # "no" THEN "unmount" ELSE lastEvent
    /\ qKey' = [hook |-> "none", courseId |-> "", token |-> NoStr]
    /\ qStatus' = "idle"
    /\ qFailureCount' = 0
    /\ qFetches' = << >>
    /\ qLastError' = NoError
    /\ mOpen' = FALSE
    /\ activeTab' = "all"
    /\ loadingItemId' = NoStr
    /\ renderedLoadingItemId' = NoStr
    /\ itemSelectCalls' = << >>
    /\ pendingAtLogout' = {}
    /\ UNCHANGED <<backendVars, callHistoryVars, passwordVars, callbackVars,
                   localStorageToken,
                   sessionToken, sessionProvider, submitted, authCalls,
                   submitShown, submitResult, submitSessionBefore, loadingRaised>>

NextSubmit ==
    \/ \E e \in FormEmails : SetEmail(e)
    \/ \E p \in FormPasswords : SetPassword(p)
    \/ \E d \in FormNames : SetDisplayName(d)
    \/ SwitchMode
    \/ Submit
    \/ SubmitSettled

SpecSubmit == Init /\ [][NextSubmit]_vars

\* The store under every operation it offers, with the Google sign-in as
\* the caller of login, across reloads.
NextStore ==
    \/ Next
    \/ \E u \in SettableUsers : SetUser(u)
    \/ \E loading \in BOOLEAN : SetAuthLoading(loading)
    \/ \E msg \in AuthErrors : SetAuthError(msg)
    \/ Logout
    \/ Reload

SpecStore == Init /\ [][NextStore]_vars

\* The form filled in with a well-formed email and a password that passes
\* the policy, in either mode.
InitAuth ==
    \E m \in {"login", "signup"}, e \in Emails :
        /\ mode = m
        /\ email = e
        /\ password = <<"a", "b", "c", "1", "2", "3">>
        /\ displayName = ""
        /\ profiles = InitialProfiles
        /\ user = NoProfile
        /\ isAuthenticated = FALSE
        /\ authError = NoMsg
        /\ isAuthLoading = FALSE
        /\ persisted = partialize(NoProfile, FALSE)
        /\ lastOp = "create"
        /\ isGoogleLoading = FALSE
        /\ error = NoMsg
        /\ isLoading = FALSE
        /\ lastWriter = 0
        /\ pendingAtLogout = {}
        /\ submitPc = "idle"
        /\ submitted = NoSubmission
        /\ authCalls = << >>
        /\ submitShown = NoMsg
        /\ submitResult = [status |-> "none", kind |-> "none", err |-> NoError]
        /\ submitSessionBefore = [user |-> NoProfile, isAuthenticated |-> FALSE]
        /\ loadingRaised = FALSE
        /\ pc = [i \in AllInvocations |-> "idle"]
        /\ userInfo = [i \in AllInvocations |-> NoUserInfo]
        /\ existingProfile = [i \in AllInvocations |-> NoProfile]
        /\ shouldRegister = [i \in AllInvocations |-> FALSE]
        /\ registerCalls = [i \in AllInvocations |-> << >>]
        /\ updateCalls = [i \in AllInvocations |-> << >>]
        /\ loginCalls = [i \in AllInvocations |-> << >>]
        /\ shown = [i \in AllInvocations |-> NoMsg]
        /\ lookupOutcome = [i \in AllInvocations |->
                               [kind |-> "none", hadProfile |-> FALSE,
                                profile |-> NoProfile]]
        /\ updateOutcome = [i \in AllInvocations |-> "none"]
        /\ registerOutcome = [i \in AllInvocations |-> "none"]
        /\ writeError = [i \in AllInvocations |-> NoError]
        /\ result = [i \in AllInvocations |-> "none"]
        /\ sessionBefore = [i \in AllInvocations |->
                               [user |-> NoProfile, isAuthenticated |-> FALSE]]
        /\ drawsDone = 0
        /\ randomPassword = << >>
        /\ passwordPc = "map"
        /\ localStorageToken = NoStr
        /\ storedToken = NoStr
        /\ refreshKey = 0
        /\ hasStoredToken = FALSE
        /\ sessionToken = NoStr
        /\ sessionProvider = NoStr
        /\ mounted = "no"
        /\ lastEvent = "none"
        /\ cbPc = "none"
        /\ cbOpener = FALSE
        /\ cbPosted = << >>
        /\ cbClosed = FALSE
        /\ cbHref = "none"
        /\ qKey = [hook |-> "none", courseId |-> "", token |-> NoStr]
        /\ qStatus = "idle"
        /\ qFailureCount = 0
        /\ qFetches = << >>
        /\ qLastError = NoError
        /\ mOpen = FALSE
        /\ activeTab = "all"
        /\ loadingItemId = NoStr
        /\ renderedLoadingItemId = NoStr
        /\ itemSelectCalls = << >>

\* Both sign-in flows of the modal side by side.
NextAuth ==
    \/ Next
    \/ Submit
    \/ SubmitSettled

SpecAuth == InitAuth /\ [][NextAuth]_vars

\* Two Google sign-in invocations in flight at once, each run once.
StartOnce(i) ==
    /\ pc[i] = "idle"
    /\ Start(i)

NextRace ==
    \E i \in AllInvocations :
        \/ StartOnce(i)
        \/ UserInfoFetched(i)
        \/ UserInfoParsed(i)
        \/ LookupReturned(i)
        \/ UpdateSettled(i)
        \/ RegisterSettled(i)

SpecRace == Init /\ [][NextRace]_vars

\* The sign-in paths of the modal with a filled form, and logout called
\* at any moment, also while a request is awaited.
NextLogout ==
    \/ \E i \in Invocations :
           \/ StartOnce(i)
           \/ UserInfoFetched(i)
           \/ UserInfoParsed(i)
           \/ LookupReturned(i)
           \/ UpdateSettled(i)
           \/ RegisterSettled(i)
    \/ Submit
    \/ SubmitSettled
    \/ Logout

SpecLogout == InitAuth /\ [][NextLogout]_vars

(***************************************************************************)
(* AuthCallbackPage, the page the OAuth popup lands on.                    *)
(***************************************************************************)
CallbackUrl == "/auth/callback"
OAuthSuccess == [type |-> "NEXTAUTH_OAUTH_SUCCESS", targetOrigin |-> "origin"]

\* The effect body: what is posted to the opener, whether window.close()
\* is called, and where the window is afterwards.
CallbackEffectOutcome_AlwaysRedirects(opener) ==
    IF opener
        THEN [posted |-> <<OAuthSuccess>>, closed |-> TRUE, href |-> "/"]
        ELSE [posted |-> << >>, closed |-> FALSE, href |-> "/"]

CallbackEffectOutcome(opener) ==
    IF opener
        THEN [posted |-> <<OAuthSuccess>>, closed |-> TRUE, href |-> CallbackUrl]
        ELSE [posted |-> << >>, closed |-> FALSE, href |-> "/"]

\* The provider redirects a window to the callback page, which renders;
\* the window is a popup (window.opener set) or not.
CallbackOpen(opener) ==
    /\ cbPc \in {"none", "done"}
    /\ cbPc' = "rendered"
    /\ cbOpener' = opener
    /\ cbPosted' = << >>
    /\ cbClosed' = FALSE
    /\ cbHref' = CallbackUrl
    /\ UNCHANGED <<reconcileVars, passwordVars, tokenVars, submitVars,
                   queryVars, materialVars>>

\* useEffect(() => {...}, []): runs once after the first render.
CallbackEffect ==
    /\ cbPc = "rendered"
    /\ cbPc' = "done"
    /\ cbPosted' = cbPosted \o CallbackEffectOutcome(cbOpener).posted
    /\ cbClosed' = CallbackEffectOutcome(cbOpener).closed
    /\ cbHref' = CallbackEffectOutcome(cbOpener).href
    /\ UNCHANGED <<cbOpener, reconcileVars, passwordVars, tokenVars, submitVars,
                   queryVars, materialVars>>

\* The callback popup next to the window whose token resolver it serves.
NextPopup ==
    \/ NextToken
    \/ \E opener \in BOOLEAN : CallbackOpen(opener)
    \/ CallbackEffect

SpecPopup == Init /\ [][NextPopup]_vars

(***************************************************************************)
(* The Classroom query hooks (useClassroomCourses, useCourseWork,          *)
(* useCourseAnnouncements, useCourseMaterials).  The four have the same    *)
(* body up to the fetch function and the courseId in `enabled`; useQuery   *)
(* is followed as far as the options the hooks pass decide it.             *)
(***************************************************************************)
QueryHooks == {"courses", "coursework", "announcements", "materials"}
CourseIds == {"", "c1"}
NoKey == [hook |-> "none", courseId |-> "", token |-> NoStr]

\* How a Classroom fetch can fail: the Error the fetch function throws on a
\* response that is not ok, the fetch rejection when the network is down,
\* and a rejection that is not an Error.
QueryErrors ==
    { Err(<<"Failed to fetch courses: ", "401", " Unauthorized">>),
      Err(<<"Failed to fetch courses: ", "403", " Forbidden">>),
      Err(<<"Failed to fetch courses: ", "500", " Internal Server Error">>),
      Err(MsgFailedToFetch),
      Thrown(<<"[object Object]">>) }

\* error?.message?.includes('401') || error?.message?.includes('403')
IsAuthError(err) ==
    /\ err.isError
    /\ Includes(err.message, <<"401">>) \/ Includes(err.message, <<"403">>)

retry_Always(failureCount, err) == ~IsAuthError(err)

\* retry: (failureCount, error) => auth error ? false : failureCount < 2.
\* useQuery calls it with the number of failures before the current one.
retry(failureCount, err) ==
    IF IsAuthError(err) THEN FALSE ELSE failureCount < 2

QueryEnabled_IgnoresAccess(hook, courseId, enabled) ==
    enabled /\ (hook = "courses" \/ courseId # "")

\* enabled: enabled && hasAccess, with && !!courseId for the per-course hooks.
QueryEnabled(hook, courseId, enabled) ==
    /\ enabled
    /\ hook = "courses" \/ courseId # ""
    /\ hasAccess

\* queryKey: [..., courseId, accessToken?.slice(-10)]
QueryKey(hook, courseId) ==
    [hook |-> hook, courseId |-> courseId, token |-> accessToken]

\* queryFn: () => fetchX(courseId, accessToken!) with the render's token.
FetchCall(key) ==
    [fn |-> key.hook, courseId |-> key.courseId, accessToken |-> key.token]

\* The component renders with the hook's current token: the observer
\* moves to the query of the new key and, when enabled and the query has
\* not been fetched, starts fetching it.  A query left behind keeps the
\* closure it was started with and is not followed further.
QueryRender(hook, courseId, enabled) ==
    /\ mounted # "no"
    /\ qKey.hook \in {"none", hook}
    /\ hook = "courses" => courseId = ""
    /\ LET key == QueryKey(hook, courseId)
           start == QueryEnabled(hook, courseId, enabled)
       IN  /\ qKey' = key
           /\ IF key # qKey
                 THEN /\ qStatus' = IF start THEN "fetching" ELSE "idle"
                      /\ qFetches' = IF start THEN <<FetchCall(key)>> ELSE << >>
                      /\ qFailureCount' = 0
                      /\ qLastError' = NoError
                 ELSE IF start /\ qStatus = "idle"
                     THEN /\ qStatus' = "fetching"
                          /\ qFetches' = <<FetchCall(key)>>
                          /\ UNCHANGED <<qFailureCount, qLastError>>
                     ELSE UNCHANGED <<qStatus, qFetches, qFailureCount,
                                      qLastError>>
    /\ UNCHANGED <<reconcileVars, passwordVars, tokenVars, submitVars,
                   callbackVars, materialVars>>

\* The fetch in flight resolves.
QueryFetchSucceeded ==
    /\ qStatus = "fetching"
    /\ qStatus' = "success"
    /\ UNCHANGED <<qKey, qFailureCount, qFetches, qLastError, reconcileVars,
                   passwordVars, tokenVars, submitVars, callbackVars,
                   materialVars>>

\* The fetch in flight rejects: retry decides between another call of the
\* same queryFn and the error state.
QueryFetchFailed ==
    /\ qStatus = "fetching"
    /\ \E err \in QueryErrors :
           /\ qLastError' = err
           /\ qFailureCount' = qFailureCount + 1
           /\ IF retry(qFailureCount, err)
                 THEN /\ qFetches' = Append(qFetches, FetchCall(qKey))
                      /\ UNCHANGED qStatus
                 ELSE /\ qStatus' = "error"
                      /\ UNCHANGED qFetches
    /\ UNCHANGED <<qKey, reconcileVars, passwordVars, tokenVars, submitVars,
                   callbackVars, materialVars>>

\* A component with one Classroom query hook, under the token events.
NextQuery ==
    \/ Render
    \/ RunEffect
    \/ StorageEvent(TokenKey)
    \/ \E token \in SessionTokens \cup {NoStr} : SessionChanged(token, "google")
    \/ \E token \in {"S", NoStr} : TokenWritten(token)
    \/ \E hook \in QueryHooks, courseId \in CourseIds, enabled \in BOOLEAN :
           QueryRender(hook, courseId, enabled)
    \/ QueryFetchSucceeded
    \/ QueryFetchFailed

SpecQuery == Init /\ [][NextQuery]_vars

(***************************************************************************)
(* SectionMaterialModal.  The items are those of the two course queries,   *)
(* taken here as loaded.                                                   *)
(***************************************************************************)
\* The most onItemSelect calls between two resets that the model follows.
MaxSelections == 3

ItemIds == {"w1", "m1", ""}
ItemType(id) == IF id = "m1" THEN "material" ELSE "assignment"
Tabs == {"all", "assignments", "materials"}

\* filteredItems: the items shown under the active tab.
ItemShown(id) ==
    \/ activeTab = "all"
    \/ activeTab = "assignments" /\ ItemType(id) = "assignment"
    \/ activeTab = "materials" /\ ItemType(id) = "material"

\* disabled={loadingItemId !== null}, as of the render on screen.
ItemDisabled == renderedLoadingItemId # NoStr

\* if (loadingItemId) return; -- a string is truthy unless empty.
SelectionBlocked == renderedLoadingItemId \notin {NoStr, ""}

\* The parent shows the modal for a course; the render that shows it is
\* made with the current state.
MaterialOpen ==
    /\ ~mOpen
    /\ mOpen' = TRUE
    /\ renderedLoadingItemId' = loadingItemId
    /\ UNCHANGED <<activeTab, loadingItemId, itemSelectCalls, reconcileVars,
                   passwordVars, tokenVars, submitVars, callbackVars, queryVars>>

\* onClick={() => setActiveTab(...)}
SetActiveTab(tab) ==
    /\ mOpen
    /\ activeTab' = tab
    /\ UNCHANGED <<mOpen, loadingItemId, renderedLoadingItemId, itemSelectCalls,
                   reconcileVars, passwordVars, tokenVars, submitVars,
                   callbackVars, queryVars>>

\* React renders the component again after setLoadingItemId.
MaterialRender ==
    /\ renderedLoadingItemId # loadingItemId
    /\ renderedLoadingItemId' = loadingItemId
    /\ UNCHANGED <<mOpen, activeTab, loadingItemId, itemSelectCalls,
                   reconcileVars, passwordVars, tokenVars, submitVars,
                   callbackVars, queryVars>>

\* A click on an item of the render on screen: MaterialItem's onClick is
\* onSelect unless disabled, and onSelect is that render's
\* handleItemSelect(item, type).
ItemClick(id) ==
    /\ mOpen
    /\ ItemShown(id)
    /\ ~ItemDisabled
    /\ Len(itemSelectCalls) < MaxSelections
    /\ IF SelectionBlocked
          THEN UNCHANGED <<loadingItemId, itemSelectCalls>>
          ELSE /\ loadingItemId' = id
               /\ itemSelectCalls' = Append(itemSelectCalls, id)
    /\ UNCHANGED <<mOpen, activeTab, renderedLoadingItemId, reconcileVars,
                   passwordVars, tokenVars, submitVars, callbackVars, queryVars>>

\* handleClose: setLoadingItemId(null); onClose()
handleClose ==
    /\ mOpen
    /\ loadingItemId' = NoStr
    /\ mOpen' = FALSE
    /\ itemSelectCalls' = << >>
    /\ UNCHANGED <<activeTab, renderedLoadingItemId, reconcileVars,
                   passwordVars, tokenVars, submitVars, callbackVars, queryVars>>

\* handleBack: setLoadingItemId(null); onBack()
handleBack ==
    /\ mOpen
    /\ loadingItemId' = NoStr
    /\ mOpen' = FALSE
    /\ itemSelectCalls' = << >>
    /\ UNCHANGED <<activeTab, renderedLoadingItemId, reconcileVars,
                   passwordVars, tokenVars, submitVars, callbackVars, queryVars>>

NextMaterial ==
    \/ MaterialOpen
    \/ \E tab \in Tabs : SetActiveTab(tab)
    \/ MaterialRender
    \/ \E id \in ItemIds : ItemClick(id)
    \/ handleClose
    \/ handleBack

SpecMaterial == Init /\ [][NextMaterial]_vars

(***************************************************************************)
(* Properties of the Google-login reconciliation.                          *)
(***************************************************************************)
LookupFailureKinds == {"Server", "Network", "Malformed"}

\* C1: whenever lookup-by-email fails with anything other than not-found,
\* the invocation issues no register and no update call, never calls the
\* store's login, and ends surfacing 'Could not verify account status.
\* Please try again.'.
C1_VerificationFailureAborts ==
    \A i \in AllInvocations :
        lookupOutcome[i].kind \in LookupFailureKinds =>
            /\ registerCalls[i] = << >>
            /\ updateCalls[i] = << >>
            /\ loginCalls[i] = << >>
            /\ pc[i] = "done"
            /\ shown[i] = MsgCouldNotVerify

\* C2: an invocation whose identity's email had a stored profile when the
\* lookup was answered never calls register.
C2_ExistingProfileNeverRegisters ==
    \A i \in AllInvocations :
        lookupOutcome[i].hadProfile => registerCalls[i] = << >>

\* C3: when the lookup reports not-found, the invocation calls register
\* exactly once and never calls update.
C3_NotFoundRegistersOnce ==
    \A i \in AllInvocations :
        lookupOutcome[i].kind = "NotFound" =>
            /\ Len(registerCalls[i]) = 1
            /\ registerCalls[i][1].email = userInfo[i].email
            /\ updateCalls[i] = << >>

C3_Witness ==
    \E i \in AllInvocations :
        /\ lookupOutcome[i].kind = "NotFound"
        /\ pc[i] = "done"
        /\ registerOutcome[i] = "ok"

\* C4: a lookup failure is classified as not-found (shouldRegister) if and
\* only if the service reported not-found.
C4_NotFoundClassificationExact ==
    \A i \in AllInvocations :
        lookupOutcome[i].kind \in LookupFailureKinds \cup {"NotFound"} =>
            (shouldRegister[i] <=> lookupOutcome[i].kind = "NotFound")

\* C5: when the avatar-sync update fails, the invocation still ends in
\* success: login is called once with the found profile (id, email and the
\* other fields as found, provider 'google'), the store holds it, and no
\* error is surfaced.
C5_AvatarSyncFailureStillLogsIn ==
    \A i \in Invocations :
        (pc[i] = "done" /\ updateOutcome[i] = "failed") =>
            LET found == lookupOutcome[i].profile IN
            /\ result[i] = "success"
            /\ loginCalls[i] = <<[found EXCEPT !.provider = "google"]>>
            /\ user = [found EXCEPT !.provider = "google"]
            /\ isAuthenticated
            /\ shown[i] = NoMsg
            /\ error = NoMsg

C5_Witness ==
    \E i \in Invocations :
        /\ pc[i] = "done"
        /\ updateOutcome[i] = "failed"
        /\ user.id = NewId("b@x.com")

\* C6: on the existing-profile path update is called iff the identity's
\* picture is present and differs from the found profile's avatarUrl; when
\* called it is called once, with the found id, email and displayName, the
\* identity's picture as avatarUrl and provider 'google'.
C6_AvatarSyncCall ==
    \A i \in AllInvocations :
        lookupOutcome[i].kind = "Found" =>
            LET found == lookupOutcome[i].profile
                ui == userInfo[i]
            IN
            IF ui.picture # NoStr /\ found.avatarUrl # ui.picture
                THEN updateCalls[i] =
                         <<[id |-> found.id,
                            fields |-> [id |-> found.id, email |-> found.email,
                                        displayName |-> found.displayName,
                                        avatarUrl |-> ui.picture,
                                        provider |-> "google"]]>>
                ELSE updateCalls[i] = << >>

C6_Witness ==
    \E i \in AllInvocations :
        /\ lookupOutcome[i].kind = "Found"
        /\ pc[i] = "done"
        /\ Len(updateCalls[i]) = 1
        /\ lookupOutcome[i].profile.avatarUrl # NoStr

\* C7: an invocation issues at most one backend write (update or register,
\* never both), calls login exactly once when it succeeds and never when
\* it fails, and a failed invocation leaves the store as it found it.
C7_SideEffectBudget ==
    \A i \in Invocations :
        /\ Len(registerCalls[i]) + Len(updateCalls[i]) <= 1
        /\ Len(loginCalls[i]) <= 1
        /\ (pc[i] = "done" /\ result[i] = "success") => Len(loginCalls[i]) = 1
        /\ (pc[i] = "done" /\ result[i] = "failure") =>
               /\ loginCalls[i] = << >>
               /\ user = sessionBefore[i].user
               /\ isAuthenticated = sessionBefore[i].isAuthenticated

C7_Witness ==
    \E i \in Invocations :
        /\ pc[i] = "done"
        /\ result[i] = "success"
        /\ Len(updateCalls[i]) = 1
        /\ Len(loginCalls[i]) = 1

\* C8: when register fails the invocation ends as a failure: login is not
\* called, the store is as it was when the invocation started, and an
\* error message is surfaced.
C8_RegisterFailureLeavesSession ==
    \A i \in Invocations :
        (pc[i] = "done" /\ registerOutcome[i] = "failed") =>
            /\ result[i] = "failure"
            /\ loginCalls[i] = << >>
            /\ user = sessionBefore[i].user
            /\ isAuthenticated = sessionBefore[i].isAuthenticated
            /\ shown[i] # NoMsg
            /\ error = shown[i]

C8_Witness ==
    \E i \in Invocations :
        /\ pc[i] = "done"
        /\ registerOutcome[i] = "failed"
        /\ sessionBefore[i].user # NoProfile
        /\ error = MsgGoogleFallback

(***************************************************************************)
(* Properties of the generated credential.                                 *)
(***************************************************************************)
\* C9: every generated credential (16 drawn characters, then 'Aa1') is
\* accepted by validatePassword, whatever the random draws are.
C9_GeneratedPasswordValid ==
    passwordPc = "done" => validatePassword(randomPassword)

(***************************************************************************)
(* Properties of the Classroom token resolver.                             *)
(***************************************************************************)
\* C10: the resolver yields its stored token whenever it has one, whatever
\* the session token is; the session token when it has only that; and
\* hasAccess = false with no token when it has neither.
C10_StoredTokenWins ==
    /\ storedToken # NoStr => (accessToken = storedToken /\ hasAccess)
    /\ (storedToken = NoStr /\ sessionToken # NoStr) =>
           (accessToken = sessionToken /\ hasAccess)
    /\ (storedToken = NoStr /\ sessionToken = NoStr) =>
           (accessToken = NoStr /\ ~hasAccess)

C10_Witness ==
    /\ mounted = "subscribed"
    /\ localStorageToken = "S"
    /\ storedToken = "S"
    /\ sessionToken = "T"
    /\ accessToken = "S"

\* The events after which the resolver has read storage again.
RereadEvents == {"mount", "storage:" \o TokenKey, "classroom-auth-success"}

\* C11: after the mount effect, a storage event for
\* 'classroom_access_token' or a 'classroom-auth-success' event is handled,
\* the resolver's stored token equals the token in storage (so with the
\* token removed the session token is the effective one); a storage event
\* for another key leaves the resolver's stored token unchanged.
C11_RereadOnEvents ==
    [][ /\ lastEvent' \in RereadEvents =>
               /\ storedToken' = localStorageToken'
               /\ (localStorageToken' = NoStr => accessToken' = sessionToken')
        /\ (lastEvent' \notin RereadEvents /\ lastEvent' # "session"
                /\ mounted' = "subscribed") =>
               storedToken' = storedToken ]_vars

C11_Witness ==
    /\ lastEvent = "storage:" \o TokenKey
    /\ localStorageToken = NoStr
    /\ storedToken = NoStr
    /\ sessionToken = "T"
    /\ accessToken = "T"
    /\ refreshKey >= 3

(***************************************************************************)
(* Properties of the auth store and of the email/password form.            *)
(***************************************************************************)
\* C12: in every reachable state of the auth store, isAuthenticated is
\* true if and only if user is present (non-null).
C12_AuthenticatedIffUser == isAuthenticated <=> (user # NoProfile)

\* C13: logout leaves user = null, isAuthenticated = false and
\* authError = null and leaves isAuthLoading as it was; a session comes
\* into being only by login or by setUser with a profile, and ceases only
\* by logout or setUser(null).
C13_LogoutAndLifecycle ==
    [][ /\ lastOp' = "logout" =>
               /\ user' = NoProfile
               /\ isAuthenticated' = FALSE
               /\ authError' = NoMsg
               /\ isAuthLoading' = isAuthLoading
        /\ (user = NoProfile /\ user' # NoProfile) =>
               /\ lastOp' \in {"login", "setUser"}
               /\ isAuthenticated'
        /\ (user # NoProfile /\ user' = NoProfile) =>
               /\ lastOp' \in {"logout", "setUser"}
               /\ ~isAuthenticated' ]_vars

C13_Witness ==
    /\ lastOp = "logout"
    /\ loginCalls[1] # << >>
    /\ user = NoProfile
    /\ ~isAuthenticated
    /\ isAuthLoading

\* C14: a page reload leaves user and isAuthenticated as they were before
\* it and issues no backend call, while isAuthLoading and authError come
\* back as false and null.  (A step that ends with the store rehydrated
\* and no handler started is the reload itself.)
C14_ReloadKeepsSession ==
    [][ (lastOp' = "rehydrate" /\ \A i \in AllInvocations : pc'[i] = "idle") =>
            /\ user' = user
            /\ isAuthenticated' = isAuthenticated
            /\ isAuthLoading' = FALSE
            /\ authError' = NoMsg
            /\ profiles' = profiles
            /\ registerCalls' = registerCalls
            /\ updateCalls' = updateCalls
            /\ authCalls' = authCalls ]_vars

C14_Witness ==
    /\ lastOp = "rehydrate"
    /\ pc[1] = "idle"
    /\ loginCalls[1] # << >>
    /\ user # NoProfile
    /\ user = loginCalls[1][Len(loginCalls[1])]
    /\ isAuthenticated

\* The form values a submission was made with pass both checks.
SubmittedValid ==
    validateEmail(submitted.email) /\ validatePassword(submitted.password)

\* C15: when handleSubmit is called with an email that does not match the
\* address pattern or a password that fails the policy, it issues no
\* backend call, never raises the loading flag, leaves the session and the
\* stored profiles as they were, and shows a validation message.
C15_ValidationFailureStopsSubmit ==
    [][ /\ (submitResult'.status # "none" /\ ~SubmittedValid') =>
               submitResult'.status = "invalid"
        /\ submitResult'.status = "invalid" =>
               /\ authCalls' = << >>
               /\ ~loadingRaised'
               /\ ~isLoading'
               /\ submitShown' = IF ~validateEmail(submitted'.email)
                                    THEN MsgInvalidEmail ELSE MsgWeakPassword
               /\ user' = user
               /\ isAuthenticated' = isAuthenticated
               /\ profiles' = profiles ]_vars

C15_Witness ==
    /\ submitResult.status = "invalid"
    /\ submitted.mode = "login"
    /\ submitted.email = "b@x.com"
    /\ ~validatePassword(submitted.password)
    /\ submitted.password # << >>
    /\ error = MsgWeakPassword
    /\ user # NoProfile
    /\ isAuthenticated
    /\ authCalls = << >>

\* C16: in login mode handleSubmit applies only the email-format check:
\* for every well-formed email and every password, whatever the policy
\* says of it, the backend login operation is called.
C16_LoginModeChecksEmailOnly ==
    (/\ submitResult.status # "none"
     /\ submitted.mode = "login"
     /\ validateEmail(submitted.email)) =>
        /\ submitResult.status # "invalid"
        /\ authCalls # << >>
        /\ authCalls[1].op = "login"

\* The message the claim assigns to a failed login call, by what actually
\* happened to the call.
ExpectedLoginFailureMessage(r) ==
    IF r.kind = "NotFound" THEN MsgAccountNotFound
    ELSE IF r.kind = "Network" THEN MsgCannotConnect
    ELSE r.err.message

\* C17: when the backend login call fails in login mode, the message shown
\* is 'Account not found. Please sign up first.' for a not-found failure,
\* 'Cannot connect to server. ...' for an unreachable server and the raw
\* error message for every other failure, and the session is as it was
\* when the form was submitted.
C17_LoginFailureMessages ==
    (submitResult.status = "failure" /\ submitted.mode = "login") =>
        /\ submitShown = ExpectedLoginFailureMessage(submitResult)
        /\ user = submitSessionBefore.user
        /\ isAuthenticated = submitSessionBefore.isAuthenticated

(***************************************************************************)
(* Properties of the two sign-in flows together.                           *)
(***************************************************************************)
\* The backend call of a Google sign-in invocation that failed because the
\* backend could not be reached.
LookupUnreachable(i) == pc[i] = "done" /\ lookupOutcome[i].kind = "Network"
CreateUnreachable(i) ==
    /\ pc[i] = "done"
    /\ registerOutcome[i] = "failed"
    /\ writeError[i] = Err(MsgFailedToFetch)
UpdateUnreachable(i) ==
    /\ pc[i] = "done"
    /\ updateOutcome[i] = "failed"
    /\ writeError[i] = Err(MsgFailedToFetch)
SubmitUnreachable ==
    submitResult.status = "failure" /\ submitResult.kind = "Network"

\* C18 as stated: in every flow (email/password login and registration,
\* the Google sign-in's lookup, update and create calls) a failure caused
\* by an unreachable backend is shown as 'Cannot connect to server. ...'.
C18_UnreachableAlwaysDistinguished ==
    /\ SubmitUnreachable => submitShown = MsgCannotConnect
    /\ \A i \in Invocations :
           (LookupUnreachable(i) \/ CreateUnreachable(i) \/ UpdateUnreachable(i))
               => shown[i] = MsgCannotConnect

\* C18, amended: 'Cannot connect to server. ...' is shown by the
\* email/password login and registration only.  In the Google sign-in an
\* unreachable lookup is shown as 'Could not verify account status. Please
\* try again.', an unreachable create as the raw text of the error, and an
\* unreachable update is not shown at all: the sign-in goes on.
C18_UnreachableMessages ==
    /\ SubmitUnreachable => submitShown = MsgCannotConnect
    /\ \A i \in Invocations :
           /\ LookupUnreachable(i) => shown[i] = MsgCouldNotVerify
           /\ CreateUnreachable(i) => shown[i] = MsgFailedToFetch
           /\ UpdateUnreachable(i) => (shown[i] = NoMsg /\ result[i] = "success")

C18_Witness ==
    /\ SubmitUnreachable
    /\ submitted.mode = "signup"
    /\ error = MsgCannotConnect
    /\ CreateUnreachable(1)
    /\ shown[1] = MsgFailedToFetch

\* C19: whenever no Google sign-in invocation is in flight isGoogleLoading
\* is false, and whenever no handleSubmit is in flight isLoading is false:
\* an invocation that raised its indicator has lowered it by the time it
\* has ended, by success or by any failure.
C19_LoadingLoweredOnTermination ==
    /\ (\A i \in AllInvocations : pc[i] \in {"idle", "done"}) => ~isGoogleLoading
    /\ submitPc = "idle" => ~isLoading

C19_Witness ==
    /\ pc[1] = "done"
    /\ result[1] = "failure"
    /\ submitResult.status = "failure"
    /\ loadingRaised
    /\ ~isLoading
    /\ ~isGoogleLoading

(***************************************************************************)
(* Properties of concurrent Google sign-in invocations.                    *)
(***************************************************************************)
\* The profile invocation i passed to the store's login.
Written(i) == loginCalls[i][Len(loginCalls[i])]

\* C20: when two invocations run concurrently and both succeed, the
\* session user is the profile written by the one that finished last, and
\* so one of the two profiles written, whole.
C20_LastWriterWins ==
    (\A i \in AllInvocations : pc[i] = "done" /\ result[i] = "success") =>
        /\ lastWriter \in AllInvocations
        /\ user = Written(lastWriter)
        /\ isAuthenticated
        /\ persisted = partialize(Written(lastWriter), TRUE)

\* Both invocations started with nobody signed in, so neither waited for
\* the other; they signed different profiles in, and the first one
\* finished last.
C20_Witness ==
    /\ \A i \in AllInvocations :
           /\ pc[i] = "done"
           /\ result[i] = "success"
           /\ sessionBefore[i].user = NoProfile
    /\ Written(1).email # Written(2).email
    /\ lastWriter = 1
    /\ user = Written(1)

(***************************************************************************)
(* Further properties of the Google-login reconciliation.                  *)
(***************************************************************************)
\* C21: on the new-profile path register is called with the identity's
\* email, name and picture, and when it succeeds the session is
\* established with the profile just created, tagged provider 'google', so
\* the session user's email is the identity's email.
C21_NewProfileSession ==
    \A i \in Invocations :
        /\ registerCalls[i] # << >> =>
               /\ registerCalls[i][1].email = userInfo[i].email
               /\ registerCalls[i][1].displayName = userInfo[i].name
               /\ registerCalls[i][1].avatarUrl = userInfo[i].picture
        /\ (pc[i] = "done" /\ registerOutcome[i] = "ok") =>
               /\ isAuthenticated
               /\ user = [profiles[userInfo[i].email] EXCEPT !.provider = "google"]
               /\ user.provider = "google"
               /\ user.email = userInfo[i].email
               /\ user.displayName = userInfo[i].name
               /\ user.avatarUrl = userInfo[i].picture
               /\ loginCalls[i] = <<user>>

C21_Witness ==
    /\ pc[1] = "done"
    /\ registerOutcome[1] = "ok"
    /\ userInfo[1].email = "a@x.com"
    /\ userInfo[1].picture = "http://img"
    /\ user.email = "a@x.com"
    /\ user.provider = "google"
    /\ profiles["a@x.com"].provider = "local"

(***************************************************************************)
(* Properties of the OAuth callback page.                                  *)
(***************************************************************************)
\* C22: a callback page with an opener posts 'NEXTAUTH_OAUTH_SUCCESS' to
\* it exactly once, closes itself and never redirects; one without an
\* opener posts nothing, stays open and redirects to '/'.
C22_CallbackNotifiesOnce ==
    /\ cbPc = "rendered" =>
           (cbPosted = << >> /\ ~cbClosed /\ cbHref = CallbackUrl)
    /\ (cbPc = "done" /\ cbOpener) =>
           /\ cbPosted = <<OAuthSuccess>>
           /\ cbClosed
           /\ cbHref = CallbackUrl
    /\ (cbPc = "done" /\ ~cbOpener) =>
           /\ cbPosted = << >>
           /\ ~cbClosed
           /\ cbHref = "/"

C22_Witness ==
    /\ cbPc = "done"
    /\ cbOpener
    /\ Len(cbPosted) = 1
    /\ cbClosed
    /\ mounted = "subscribed"

(***************************************************************************)
(* Properties of the Classroom query hooks.                                *)
(***************************************************************************)
\* C23: for each Classroom query hook a failure whose message contains
\* '401' or '403' is not retried, any other failure is retried only while
\* fewer than 2 failures came before it, so a query makes at most 3 fetch
\* calls and then rests in the error state.
C23_RetryBudget ==
    /\ Len(qFetches) <= 3
    /\ qStatus = "fetching" =>
           /\ Len(qFetches) = qFailureCount + 1
           /\ qFailureCount > 0 => ~IsAuthError(qLastError)
    /\ qStatus = "error" =>
           /\ Len(qFetches) = qFailureCount
           /\ IsAuthError(qLastError) \/ qFailureCount = 3
    /\ (qFailureCount > 0 /\ IsAuthError(qLastError)) => qStatus = "error"

C23_Witness ==
    /\ qKey.hook = "materials"
    /\ qStatus = "error"
    /\ Len(qFetches) = 3
    /\ qFailureCount = 3
    /\ ~IsAuthError(qLastError)

\* C24: no Classroom fetch is issued without an access token: every call
\* of a fetch function carries a token, and a per-course one a course id,
\* whatever the order of mount, token-store and token-remove events.
C24_NoFetchWithoutToken ==
    /\ \A k \in 1..Len(qFetches) :
           /\ qFetches[k].accessToken # NoStr
           /\ qFetches[k].fn # "courses" => qFetches[k].courseId # ""
    /\ qStatus = "fetching" => qKey.token # NoStr

\* A fetch was issued with the stored token, which has since been removed
\* and the resolver refreshed, before the component rendered again.
C24_Witness ==
    /\ qStatus = "fetching"
    /\ qFetches # << >>
    /\ qFetches[1].fn = "coursework"
    /\ qFetches[1].accessToken = "S"
    /\ localStorageToken = NoStr
    /\ storedToken = NoStr
    /\ sessionToken = NoStr
    /\ ~hasAccess

Registering(e) ==
    { i \in AllInvocations :
          \E k \in 1..Len(registerCalls[i]) : registerCalls[i][k].email = e }
Registered(e) == { i \in Registering(e) : registerOutcome[i] = "ok" }

C27_SessionOrError ==
    \A i \in AllInvocations :
        pc[i] = "done" =>
            (loginCalls[i] # << >>) # (shown[i] # NoMsg)

(***************************************************************************)
(* Properties of logout against requests in flight.                        *)
(***************************************************************************)
\* The session is empty, in the store and in what persist saved.
SessionEmpty ==
    /\ user = NoProfile
    /\ ~isAuthenticated
    /\ persisted = partialize(NoProfile, FALSE)

\* C28 as stated: after logout the session stays empty until a later
\* request succeeds, and a request that was in flight when logout was
\* called never writes the session.
C28_InFlightNeverRestores ==
    /\ lastOp = "logout" => SessionEmpty
    /\ lastOp = "login" => lastWriter \notin pendingAtLogout

\* C28, amended: after logout the session is empty until the next request
\* succeeds; requests are not cancelled, so a request that was in flight
\* when logout was called and succeeds afterwards has the store's login
\* applied to what it obtained, as one started after the logout does.
C28_LogoutUntilNextSuccess ==
    /\ lastOp = "logout" => SessionEmpty
    /\ lastOp = "login" =>
           /\ isAuthenticated
           /\ persisted = partialize(user, TRUE)
           /\ lastWriter \in AllInvocations => user = Written(lastWriter)

\* An invocation that was awaiting its lookup when logout was called has
\* since logged its profile in.
C28_Witness ==
    /\ 1 \in pendingAtLogout
    /\ pc[1] = "done"
    /\ lastOp = "login"
    /\ lastWriter = 1
    /\ user = Written(1)
    /\ isAuthenticated

(***************************************************************************)
(* Properties of the Google loading indicator.                             *)
(***************************************************************************)
\* C29: whenever at least one Google invocation has started and not yet
\* terminated, isGoogleLoading is true, also when two invocations overlap
\* and one of them has finished.
C29_LoadingWhileInFlight ==
    (InFlight \cap AllInvocations # {}) => isGoogleLoading

(***************************************************************************)
(* Properties relating the two Classroom access hooks.                     *)
(***************************************************************************)
\* C30: useHasClassroomAccess reports access if and only if
\* useClassroomAccessToken yields an effective token, whatever the session
\* token, the session provider and the stored token are.
C30_HooksAgree ==
    mounted = "subscribed" => (hasClassroomAccess <=> hasAccess)

====
